---- MODULE Spec2Model ----
(***************************************************************************)
(* The Express application of src/index.js: the CORS middleware, the JSON  *)
(* body parser, apiKeyAuth, the /api/parse and /api/test-openai handlers,  *)
(* ClimateProjectParser.extractProjectInfo, the 404 and error handlers.    *)
(* One request is followed through the middleware chain; the upstream      *)
(* completion service is the environment and answers with any content.     *)
(***************************************************************************)
EXTENDS Integers, Sequences, FiniteSets, TLC

\* Longest upstream message content, in characters of Chars.
MaxLen == 4

(***************************************************************************)
(* JavaScript values.                                                      *)
(***************************************************************************)
Undefined == [t |-> "undefined"]
Null == [t |-> "null"]
Str(s) == [t |-> "string", s |-> s]
Num(n) == [t |-> "number", n |-> n]
Obj(ms) == [t |-> "object", members |-> ms]
\* A string whose characters matter, as a sequence.
Text(cs) == [t |-> "text", chars |-> cs]

\* JavaScript's ToBoolean, as used by `!x`.
Truthy(v) ==
  CASE v.t = "undefined" -> FALSE
    [] v.t = "null" -> FALSE
    [] v.t = "string" -> v.s # ""
    [] v.t = "number" -> v.n # 0
    [] v.t = "text" -> v.chars # <<>>
    [] OTHER -> TRUE

(***************************************************************************)
(* Text of the upstream message: a sequence of characters.  "k:" stands    *)
(* for the member prefix "k": of an object, "n" for the literal null, "1"  *)
(* for a digit and "x" for any character that starts no JSON token.        *)
(***************************************************************************)
Chars == {" ", "{", "}", "k:", "1", "n", "x"}

RECURSIVE SeqsUpTo(_, _)
SeqsUpTo(S, n) ==
  IF n = 0 THEN {<<>>}
  ELSE LET shorter == SeqsUpTo(S, n - 1)
       IN shorter \cup {Append(s, c) : s \in {q \in shorter : Len(q) = n - 1}, c \in S}

Contents == SeqsUpTo(Chars, MaxLen)

\* String.prototype.trim
RECURSIVE TrimLeft(_)
TrimLeft(s) == IF s # <<>> /\ Head(s) = " " THEN TrimLeft(Tail(s)) ELSE s

RECURSIVE TrimRight(_)
TrimRight(s) ==
  IF s # <<>> /\ s[Len(s)] = " " THEN TrimRight(SubSeq(s, 1, Len(s) - 1)) ELSE s

trim(s) == TrimRight(TrimLeft(s))

\* JSON.parse: a recursive-descent parser.  Each Parse* operator takes the text
\* and a position and returns [ok, val, next].
RECURSIVE SkipWs(_, _)
SkipWs(s, i) == IF i <= Len(s) /\ s[i] = " " THEN SkipWs(s, i + 1) ELSE i

RECURSIVE ParseDigits(_, _, _)
ParseDigits(s, i, acc) ==
  IF i <= Len(s) /\ s[i] = "1" THEN ParseDigits(s, i + 1, 10 * acc + 1)
  ELSE [ok |-> TRUE, val |-> Num(acc), next |-> i]

ParseFail == [ok |-> FALSE, val |-> Undefined, next |-> 0]

RECURSIVE ParseValue(_, _)
ParseValue(s, i0) ==
  LET i == SkipWs(s, i0) IN
  IF i > Len(s) THEN ParseFail
  ELSE CASE s[i] = "n" -> [ok |-> TRUE, val |-> Null, next |-> i + 1]
         [] s[i] = "1" -> ParseDigits(s, i, 0)
         [] s[i] = "{" ->
              LET j == SkipWs(s, i + 1) IN
              IF j > Len(s) THEN ParseFail
              ELSE IF s[j] = "}" THEN [ok |-> TRUE, val |-> Obj(<<>>), next |-> j + 1]
              ELSE IF s[j] = "k:" THEN
                LET m == ParseValue(s, j + 1) IN
                IF ~m.ok THEN ParseFail
                ELSE LET e == SkipWs(s, m.next) IN
                     IF e <= Len(s) /\ s[e] = "}"
                     THEN [ok |-> TRUE,
                           val |-> Obj(<<[key |-> "k", val |-> m.val]>>),
                           next |-> e + 1]
                     ELSE ParseFail
              ELSE ParseFail
         [] OTHER -> ParseFail

\* [ok |-> TRUE, val] or, for a SyntaxError, [ok |-> FALSE].
JSONparse(s) ==
  LET r == ParseValue(s, 1) IN
  IF r.ok /\ SkipWs(s, r.next) > Len(s)
  THEN [ok |-> TRUE, val |-> r.val]
  ELSE [ok |-> FALSE, val |-> Undefined]

\* JSON.stringify of a value JSON.parse returned.
DigitChar(d) == IF d = 1 THEN "1" ELSE "0"

RECURSIVE Digits(_)
Digits(n) ==
  IF n < 10 THEN <<DigitChar(n)>> ELSE Append(Digits(n \div 10), DigitChar(n % 10))

RECURSIVE JSONstringify(_)
JSONstringify(v) ==
  CASE v.t = "null" -> <<"n">>
    [] v.t = "number" -> Digits(v.n)
    [] v.t = "object" ->
         IF v.members = <<>> THEN <<"{", "}">>
         ELSE <<"{", "k:">> \o JSONstringify(v.members[1].val) \o <<"}">>

\* Object.keys: a TypeError for null and undefined, the own keys otherwise.
ObjectKeysThrows(v) == v.t \in {"null", "undefined"}

(***************************************************************************)
(* Errors.  A message is a sequence of pieces, so that a message quoting   *)
(* another text contains it.                                               *)
(***************************************************************************)
\* new Error(...): the stack starts with the name and the message.
NewError(name, message, at) ==
  [name |-> name, message |-> message,
   stack |-> <<name>> \o message \o <<at>>]

\* What JSON.parse throws: V8's message quotes the text it could not parse.
SyntaxError(s) == NewError("SyntaxError", <<"Unexpected token in JSON: ">> \o s, "at JSON.parse")

TrimOfNull ==
  NewError("TypeError", <<"Cannot read properties of null (reading 'trim')">>,
           "at ClimateProjectParser.extractProjectInfo")

KeysOfNull ==
  NewError("TypeError", <<"Cannot convert undefined or null to object">>, "at Object.keys")

DestructureUndefined ==
  NewError("TypeError", <<"Cannot destructure property 'text' of 'req.body' as it is undefined.">>,
           "at /api/parse")

BodyParseError ==
  NewError("SyntaxError", <<"Unexpected token in JSON body">>, "at body-parser")

ParseFailureMessage == <<"Failed to parse OpenAI response as JSON">>

\* Failures of the upstream call itself, as the client library raises them.
UpstreamErrors ==
  {NewError("APIConnectionError", <<"Connection error.">>, "at OpenAI.makeRequest"),
   NewError("RateLimitError", <<"429 You exceeded your current quota">>, "at OpenAI.makeRequest"),
   NewError("AuthenticationError", <<"401 Incorrect API key provided">>, "at OpenAI.makeRequest")}

(***************************************************************************)
(* The environment of the process and the requests clients send.           *)
(***************************************************************************)
Envs ==
  [API_SECRET_KEY : {Undefined, Str("s3cret")},
   OPENAI_API_KEY : {Undefined, Str("sk-live")},
   NODE_ENV : {Undefined, Str("production"), Str("development")}]

allowedOrigins ==
  {<<"http://localhost:3000">>, <<"http://localhost:3001">>,
   <<"http://localhost:8080">>, <<"http://localhost:8081">>,
   <<"https://changeblock.com">>, <<"https://feasibilityapp", ".vercel.app">>}

\* Origin headers: absent, allow-listed, a provider subdomain, and foreign ones.
Origins ==
  {Undefined, Text(<<"https://changeblock.com">>),
   Text(<<"https://preview-1", ".vercel.app">>),
   Text(<<"https://team", ".vercel.com">>),
   Text(<<"https://evil.example">>)}

Methods == {"GET", "POST", "OPTIONS"}
Paths == {"/api/parse", "/api/test-openai", "/api/health", "/", "/api/other"}
ApiKeys == {Undefined, Str("s3cret"), Str("wrong")}

\* The text member of a JSON body: absent, falsy values, a string, a number.
TextValues == {Undefined, Null, Str(""), Num(0), Str("abc"), Num(123)}

\* The body on the wire: none, text that is not JSON, or a JSON object.
RawBodies ==
  {[kind |-> "none"], [kind |-> "malformed"]}
    \cup {[kind |-> "json", text |-> v] : v \in TextValues}

Requests ==
  [method : Methods, path : Paths, origin : Origins, apiKey : ApiKeys,
   rawBody : RawBodies]

NoRequest ==
  [method |-> "GET", path |-> "/", origin |-> Undefined, apiKey |-> Undefined,
   rawBody |-> [kind |-> "none"]]

\* String.prototype.endsWith
endsWith(s, suffix) ==
  /\ Len(s) >= Len(suffix)
  /\ SubSeq(s, Len(s) - Len(suffix) + 1, Len(s)) = suffix

(***************************************************************************)
(* Responses.                                                              *)
(***************************************************************************)
NoHeaders ==
  [allowOrigin |-> Undefined, allowMethods |-> Undefined, allowHeaders |-> Undefined]

NewResponse ==
  [sent |-> 0, statusCode |-> 200, headers |-> NoHeaders, body |-> [kind |-> "unset"]]

\* res.status(code).json({error, details}) and the like: one more send.
Send(r, code, body) == [r EXCEPT !.sent = @ + 1, !.statusCode = code, !.body = body]

ErrorBody(message, details) == [kind |-> "error", error |-> message, details |-> details]

VARIABLES
  env,            \* process.env
  pc,             \* where the request in hand is in the middleware chain
  req,            \* the request in hand
  body,           \* req.body, as the body parser left it
  res,            \* its response
  err,            \* the error handed to next(err)
  parser,         \* the ClimateProjectParser of the request
  requestId,      \* the requestId extractProjectInfo took
  upstreamCalls,  \* calls made to the upstream service for this request
  reply,          \* the upstream's answer, once it has arrived
  first,          \* what became of the request the current one repeats
  PORT,           \* process.env.PORT
  server,         \* where the process is in starting up
  port,           \* the port startServer was last called with
  binds           \* the calls of app.listen so far

vars ==
  <<env, pc, req, body, res, err, parser, requestId, upstreamCalls, reply,
    first, PORT, server, port, binds>>

NoError == [name |-> "none", message |-> <<>>, stack |-> <<>>]
NoReply == [kind |-> "none"]
NoParser == [requestCount |-> 0]
NoFirst == [kind |-> "none"]

\* The process is up and no request is in hand.
Init ==
  /\ first = NoFirst
  /\ PORT = Undefined
  /\ server = "serving"
  /\ port = Undefined
  /\ binds = 0
  /\ env \in Envs
  /\ pc = "idle"
  /\ req = NoRequest
  /\ body = Undefined
  /\ res = NewResponse
  /\ err = NoError
  /\ parser = NoParser
  /\ requestId = 0
  /\ upstreamCalls = 0
  /\ reply = NoReply

\* A client sends a request to the idle server.
Arrive ==
  /\ pc = "idle"
  /\ req' \in Requests
  /\ pc' = "cors"
  /\ res' = NewResponse
  /\ UNCHANGED <<first, PORT, server, port, binds, env, body, err, parser, requestId, upstreamCalls, reply>>

\* The response has gone out and the request's objects are dropped; the
\* process and its environment stay.
Finish ==
  /\ pc = "done"
  /\ pc' = "idle"
  /\ req' = NoRequest
  /\ body' = Undefined
  /\ res' = NewResponse
  /\ err' = NoError
  /\ parser' = NoParser
  /\ requestId' = 0
  /\ upstreamCalls' = 0
  /\ reply' = NoReply
  /\ UNCHANGED <<first, PORT, server, port, binds, env>>

OriginAllowed_AnyOrigin(origin) == TRUE

OriginAllowed_ListOnly(origin) ==
  \/ ~Truthy(origin)
  \/ origin.chars \in allowedOrigins

\* The condition under which the CORS middleware sets the headers.
OriginAllowed(origin) ==
  \/ ~Truthy(origin)
  \/ origin.chars \in allowedOrigins
  \/ endsWith(origin.chars, <<".vercel.app">>)
  \/ endsWith(origin.chars, <<".vercel.com">>)

CorsHeaders(origin) ==
  [allowOrigin |-> IF Truthy(origin) THEN origin ELSE Str("*"),
   allowMethods |-> Str("GET, POST, PUT, DELETE, OPTIONS"),
   allowHeaders |-> Str("X-Requested-With, Content-Type, Accept, Authorization, X-API-Key")]

\* app.use((req, res, next) => ...): the CORS middleware.
CorsMiddleware ==
  /\ pc = "cors"
  /\ IF OriginAllowed(req.origin)
     THEN IF req.method = "OPTIONS"
          THEN /\ res' = [[res EXCEPT !.headers = CorsHeaders(req.origin)]
                            EXCEPT !.sent = @ + 1, !.statusCode = 200,
                                   !.body = [kind |-> "empty"]]
               /\ pc' = "done"
          ELSE /\ res' = [res EXCEPT !.headers = CorsHeaders(req.origin)]
               /\ pc' = "json"
     ELSE /\ res' = res
          /\ pc' = "json"
  /\ UNCHANGED <<first, PORT, server, port, binds, env, req, body, err, parser, requestId, upstreamCalls, reply>>

\* express.json(): a body that is not JSON goes to the error handler; a request
\* without a JSON body gets {} from body-parser 1.x and undefined from 2.x.
JsonBodyParser ==
  /\ pc = "json"
  /\ \/ /\ req.rawBody.kind = "malformed"
        /\ err' = BodyParseError
        /\ pc' = "error"
        /\ body' = body
     \/ /\ req.rawBody.kind = "json"
        /\ body' = Obj(<<[key |-> "text", val |-> req.rawBody.text]>>)
        /\ pc' = "route"
        /\ err' = err
     \/ /\ req.rawBody.kind = "none"
        /\ body' \in {Obj(<<>>), Undefined}
        /\ pc' = "route"
        /\ err' = err
  /\ UNCHANGED <<first, PORT, server, port, binds, env, req, res, parser, requestId, upstreamCalls, reply>>

IsParseRoute == req.method = "POST" /\ req.path = "/api/parse"
IsTestRoute == req.method = "GET" /\ req.path = "/api/test-openai"
IsHealthRoute_AnyMethod == req.path = "/api/health"

IsHealthRoute == req.method = "GET" /\ req.path = "/api/health"
IsRootRoute == req.method = "GET" /\ req.path = "/"

AuthOutcome_KeyFirst(apiKey, secret) ==
  IF ~Truthy(apiKey) \/ apiKey # secret THEN "unauthorized"
  ELSE IF ~Truthy(secret) THEN "notConfigured"
  ELSE "next"

AuthOutcome_MissingKeyPasses(apiKey, secret) ==
  IF ~Truthy(secret) THEN "notConfigured"
  ELSE IF Truthy(apiKey) /\ apiKey # secret THEN "unauthorized"
  ELSE "next"

\* The two checks of apiKeyAuth, in the order the code makes them.
AuthOutcome(apiKey, secret) ==
  IF ~Truthy(secret) THEN "notConfigured"
  ELSE IF ~Truthy(apiKey) \/ apiKey # secret THEN "unauthorized"
  ELSE "next"

\* const apiKeyAuth = (req, res, next) => ...
ApiKeyAuth ==
  /\ pc = "route"
  /\ IsParseRoute \/ IsTestRoute
  /\ LET outcome == AuthOutcome(req.apiKey, env.API_SECRET_KEY) IN
     IF outcome = "notConfigured"
     THEN /\ res' = Send(res, 500,
                ErrorBody(<<"Server configuration error: API key not configured">>, Undefined))
          /\ pc' = "done"
     ELSE IF outcome = "unauthorized"
     THEN /\ res' = Send(res, 401, ErrorBody(<<"Unauthorized: Invalid API key">>, Undefined))
          /\ pc' = "done"
     ELSE /\ res' = res
          /\ pc' = "handler"
  /\ UNCHANGED <<first, PORT, server, port, binds, env, req, body, err, parser, requestId, upstreamCalls, reply>>

\* const { text } = req.body, for a body that is an object.
TextOf(b) ==
  IF b.members # <<>> /\ b.members[1].key = "text" THEN b.members[1].val ELSE Undefined

TextMissing_OnlyUndefined(b) == TextOf(b) = Undefined

\* if (!text)
TextMissing(b) == ~Truthy(TextOf(b))

CredentialsMissing_Unchecked(e) == FALSE

\* if (!process.env.OPENAI_API_KEY)
CredentialsMissing(e) == ~Truthy(e.OPENAI_API_KEY)

Details_NonProduction(e) ==
  IF env.NODE_ENV # Str("production") THEN Text(e.stack) ELSE Undefined

\* details: process.env.NODE_ENV === 'development' ? error.stack : undefined
Details(e) == IF env.NODE_ENV = Str("development") THEN Text(e.stack) ELSE Undefined

ParseCatch_SendTwice(r, e) ==
  Send(Send(r, 500, ErrorBody(e.message, Details(e))), 500, ErrorBody(e.message, Details(e)))

\* The catch block of the /api/parse handler.
ParseCatch(r, e) == Send(r, 500, ErrorBody(e.message, Details(e)))

\* app.post('/api/parse', apiKeyAuth, async (req, res) => ...), up to the
\* await of the upstream call inside extractProjectInfo.
ParseHandler ==
  /\ pc = "handler"
  /\ IsParseRoute
  /\ IF body = Undefined
     THEN /\ res' = ParseCatch(res, DestructureUndefined)
          /\ pc' = "done"
          /\ UNCHANGED <<parser, requestId, upstreamCalls>>
     ELSE IF TextMissing(body)
     THEN /\ res' = Send(res, 400, ErrorBody(<<"Text field is required">>, Undefined))
          /\ pc' = "done"
          /\ UNCHANGED <<parser, requestId, upstreamCalls>>
     ELSE IF CredentialsMissing(env)
     THEN /\ res' = Send(res, 500, ErrorBody(<<"OpenAI API key is not configured">>, Undefined))
          /\ pc' = "done"
          /\ UNCHANGED <<parser, requestId, upstreamCalls>>
     ELSE \* new ClimateProjectParser(); const requestId = ++this.requestCount;
          \* await this.client.chat.completions.create(...)
          /\ parser' = [requestCount |-> NoParser.requestCount + 1]
          /\ requestId' = NoParser.requestCount + 1
          /\ upstreamCalls' = upstreamCalls + 1
          /\ pc' = "awaitParse"
          /\ res' = res
  /\ UNCHANGED <<first, PORT, server, port, binds, env, req, body, err, reply>>

\* What the completion call can come back with: a message whose content is any
\* text or null, or a failure.
ParseReplies ==
  {[kind |-> "ok", content |-> Text(c)] : c \in Contents}
    \cup {[kind |-> "ok", content |-> Null]}
    \cup {[kind |-> "error", error |-> e] : e \in UpstreamErrors}

\* The upstream service answers the pending call.
UpstreamReply ==
  /\ pc \in {"awaitParse", "awaitTest"}
  /\ reply = NoReply
  /\ reply' \in IF pc = "awaitParse" THEN ParseReplies
                ELSE {[kind |-> "ok", content |-> Str("2025")],
                      [kind |-> "ok", content |-> Undefined]}
                       \cup {[kind |-> "error", error |-> e] : e \in UpstreamErrors}
  /\ UNCHANGED <<first, PORT, server, port, binds, env, pc, req, body, res, err, parser, requestId, upstreamCalls>>

Returned(v) == [threw |-> FALSE, value |-> v, error |-> NoError]
Threw(e) == [threw |-> TRUE, value |-> Undefined, error |-> e]

ParseContent_Rethrow(jsonContent) ==
  LET parsed == JSONparse(jsonContent) IN
  IF ~parsed.ok THEN Threw(SyntaxError(jsonContent))
  ELSE IF ObjectKeysThrows(parsed.val) THEN Threw(KeysOfNull)
  ELSE Returned(parsed.val)

\* The inner try of extractProjectInfo: JSON.parse and the logging of the
\* number of keys; whatever is thrown there is replaced by a new Error.
ParseContent(jsonContent) ==
  LET parsed == JSONparse(jsonContent) IN
  IF ~parsed.ok \/ ObjectKeysThrows(parsed.val)
  THEN Threw(NewError("Error", ParseFailureMessage,
                      "at ClimateProjectParser.extractProjectInfo"))
  ELSE Returned(parsed.val)

extractProjectInfo_Wrap(r) ==
  IF r.kind = "error"
  THEN Threw(NewError("Error", <<"OpenAI request failed">>,
                      "at ClimateProjectParser.extractProjectInfo"))
  ELSE IF r.content = Null THEN Threw(TrimOfNull)
  ELSE ParseContent(trim(r.content.chars))

\* extractProjectInfo from the return of the awaited call on; the outer catch
\* logs and rethrows the error it caught.
extractProjectInfo(r) ==
  IF r.kind = "error" THEN Threw(r.error)
  ELSE IF r.content = Null THEN Threw(TrimOfNull)
  ELSE ParseContent(trim(r.content.chars))

\* res.json(projectInfo)
JsonBody(v) == [kind |-> "json", text |-> JSONstringify(v)]

ParseResume_Retry ==
  /\ pc = "awaitParse"
  /\ reply # NoReply
  /\ LET out == extractProjectInfo(reply) IN
     IF out.threw /\ upstreamCalls < 3
     THEN /\ upstreamCalls' = upstreamCalls + 1
          /\ reply' = NoReply
          /\ UNCHANGED <<pc, res>>
     ELSE /\ res' = IF out.threw THEN ParseCatch(res, out.error)
                    ELSE Send(res, res.statusCode, JsonBody(out.value))
          /\ pc' = "done"
          /\ UNCHANGED <<upstreamCalls, reply>>
  /\ UNCHANGED <<first, PORT, server, port, binds, env, req, body, err, parser, requestId>>

\* The /api/parse handler once the upstream call has settled.
ParseResume ==
  /\ pc = "awaitParse"
  /\ reply # NoReply
  /\ LET out == extractProjectInfo(reply) IN
     res' = IF out.threw THEN ParseCatch(res, out.error)
            ELSE Send(res, res.statusCode, JsonBody(out.value))
  /\ pc' = "done"
  /\ UNCHANGED <<first, PORT, server, port, binds, env, req, body, err, parser, requestId, upstreamCalls, reply>>

\* app.get('/api/test-openai', apiKeyAuth, async (req, res) => ...), up to the
\* await of openai.responses.create.
TestHandler ==
  /\ pc = "handler"
  /\ IsTestRoute
  /\ IF ~Truthy(env.OPENAI_API_KEY)
     THEN /\ res' = Send(res, 500, ErrorBody(<<"OpenAI API key is not configured">>, Undefined))
          /\ pc' = "done"
          /\ upstreamCalls' = upstreamCalls
     ELSE /\ upstreamCalls' = upstreamCalls + 1
          /\ pc' = "awaitTest"
          /\ res' = res
  /\ UNCHANGED <<first, PORT, server, port, binds, env, req, body, err, parser, requestId, reply>>

TestFailureBody(e) ==
  [kind |-> "test", status |-> "error", message |-> <<"OpenAI connection failed">>,
   error |-> e.message, details |-> Details(e)]

TrimOfUndefined ==
  NewError("TypeError", <<"Cannot read properties of undefined (reading 'trim')">>,
           "at /api/test-openai")

\* The /api/test-openai handler once the upstream call has settled.
TestResume ==
  /\ pc = "awaitTest"
  /\ reply # NoReply
  /\ res' = IF reply.kind = "error" THEN Send(res, 500, TestFailureBody(reply.error))
            ELSE IF reply.content = Undefined THEN Send(res, 500, TestFailureBody(TrimOfUndefined))
            ELSE Send(res, res.statusCode,
                      [kind |-> "test", status |-> "success",
                       message |-> <<"OpenAI connection working">>,
                       response |-> reply.content])
  /\ pc' = "done"
  /\ UNCHANGED <<first, PORT, server, port, binds, env, req, body, err, parser, requestId, upstreamCalls, reply>>

\* app.get('/api/health', ...)
HealthHandler ==
  /\ pc = "route"
  /\ IsHealthRoute
  /\ res' = Send(res, res.statusCode,
                 [kind |-> "health", status |-> "OK",
                  message |-> <<"Climate Project Parser API is running">>])
  /\ pc' = "done"
  /\ UNCHANGED <<first, PORT, server, port, binds, env, req, body, err, parser, requestId, upstreamCalls, reply>>

\* app.get('/', ...)
RootHandler ==
  /\ pc = "route"
  /\ IsRootRoute
  /\ res' = Send(res, res.statusCode, [kind |-> "html"])
  /\ pc' = "done"
  /\ UNCHANGED <<first, PORT, server, port, binds, env, req, body, err, parser, requestId, upstreamCalls, reply>>

\* app.use((req, res) => ...): no route matched.
NotFoundHandler ==
  /\ pc = "route"
  /\ ~(IsParseRoute \/ IsTestRoute \/ IsHealthRoute \/ IsRootRoute)
  /\ res' = Send(res, 404,
                 [kind |-> "notFound", error |-> <<"Not Found">>,
                  message |-> <<"The requested endpoint does not exist">>])
  /\ pc' = "done"
  /\ UNCHANGED <<first, PORT, server, port, binds, env, req, body, err, parser, requestId, upstreamCalls, reply>>

\* app.use((err, req, res, next) => ...): the error-handling middleware.
ErrorHandler ==
  /\ pc = "error"
  /\ res' = Send(res, 500,
                 [kind |-> "unhandled", error |-> <<"Internal Server Error">>,
                  message |-> IF env.NODE_ENV = Str("production")
                              THEN <<"An unexpected error occurred">>
                              ELSE err.message])
  /\ pc' = "done"
  /\ UNCHANGED <<first, PORT, server, port, binds, env, req, body, err, parser, requestId, upstreamCalls, reply>>

Next ==
  \/ Arrive
  \/ Finish
  \/ CorsMiddleware
  \/ JsonBodyParser
  \/ ApiKeyAuth
  \/ ParseHandler
  \/ UpstreamReply
  \/ ParseResume
  \/ TestHandler
  \/ TestResume
  \/ HealthHandler
  \/ RootHandler
  \/ NotFoundHandler
  \/ ErrorHandler

Spec == Init /\ [][Next]_vars

(***************************************************************************)
(* A client sends a request without an Origin header and, once it has been *)
(* answered, sends the same request again with an Origin header; the       *)
(* upstream answers the second as it answered the first.                   *)
(***************************************************************************)
ArriveNoOrigin ==
  /\ pc = "idle"
  /\ req' \in {r \in Requests : r.origin = Undefined}
  /\ pc' = "cors"
  /\ res' = NewResponse
  /\ UNCHANGED <<first, PORT, server, port, binds, env, body, err, parser, requestId, upstreamCalls, reply>>

\* The answered request is remembered and sent again from another origin; the
\* server starts on it with fresh request-scoped objects, as after Finish.
Resend ==
  /\ pc = "done"
  /\ first = NoFirst
  /\ first' = [kind |-> "answered", res |-> res, body |-> body, reply |-> reply,
               requestId |-> requestId]
  /\ \E o \in Origins \ {Undefined} : req' = [req EXCEPT !.origin = o]
  /\ pc' = "cors"
  /\ body' = Undefined
  /\ res' = NewResponse
  /\ err' = NoError
  /\ parser' = NoParser
  /\ requestId' = 0
  /\ upstreamCalls' = 0
  /\ reply' = NoReply
  /\ UNCHANGED <<PORT, server, port, binds, env>>

\* The upstream answers the repeated call as it answered the first.
UpstreamReplyAgain ==
  /\ first # NoFirst
  /\ pc \in {"awaitParse", "awaitTest"}
  /\ reply = NoReply
  /\ reply' = first.reply
  /\ UNCHANGED <<first, PORT, server, port, binds, env, pc, req, body, res, err, parser, requestId, upstreamCalls>>

NextReplay ==
  \/ ArriveNoOrigin
  \/ Resend
  \/ CorsMiddleware
  \/ JsonBodyParser
  \/ ApiKeyAuth
  \/ ParseHandler
  \/ (first = NoFirst /\ UpstreamReply)
  \/ UpstreamReplyAgain
  \/ ParseResume
  \/ TestHandler
  \/ TestResume
  \/ HealthHandler
  \/ RootHandler
  \/ NotFoundHandler
  \/ ErrorHandler

SpecReplay == Init /\ [][NextReplay]_vars

(***************************************************************************)
(* Properties.                                                             *)
(***************************************************************************)
Answered == pc = "done"
InFlight == pc # "idle"

\* The request carries the configured shared secret.
KeyMatches == Truthy(env.API_SECRET_KEY) /\ req.apiKey = env.API_SECRET_KEY

\* x occurs in y as a contiguous, non-empty piece.
Appears(x, y) ==
  /\ x # <<>>
  /\ \E i \in 1..Len(y) : i + Len(x) - 1 <= Len(y) /\ SubSeq(y, i, i + Len(x) - 1) = x

\* The text of the body sent on the wire is missing, empty or not a string.
TextAbsentEmptyOrNonString ==
  /\ req.rawBody.kind = "json"
  /\ req.rawBody.text.t # "string" \/ req.rawBody.text = Str("")

\* C1 as stated: every POST /api/parse request whose body lacks the text field,
\* or has it empty or non-string, is answered 400 with an error message, and the
\* upstream is never called for it.
C1_AsStated ==
  (InFlight /\ IsParseRoute /\ TextAbsentEmptyOrNonString)
    => /\ upstreamCalls = 0
       /\ Answered => res.statusCode = 400 /\ res.body.kind = "error"

\* C1 as amended: a POST /api/parse request that has passed apiKeyAuth and whose
\* parsed body lacks the text field or has it falsy (empty string, null, 0) is
\* answered once, 400 with the message "Text field is required", and the
\* upstream is never called for it.
C1_MissingTextRejected ==
  (IsParseRoute /\ KeyMatches /\ body.t = "object" /\ ~Truthy(TextOf(body)))
    => /\ upstreamCalls = 0
       /\ pc \in {"route", "handler", "done"}
       /\ Answered => /\ res.sent = 1
                      /\ res.statusCode = 400
                      /\ res.body = ErrorBody(<<"Text field is required">>, Undefined)

C1_Witness ==
  /\ Answered /\ IsParseRoute /\ KeyMatches
  /\ body.t = "object" /\ TextOf(body) = Str("")
  /\ res.statusCode = 400

\* The body is a JSON object with a non-empty string text.
CorrectBody ==
  /\ req.rawBody.kind = "json"
  /\ req.rawBody.text.t = "string"
  /\ req.rawBody.text.s # ""

\* C2: with a shared secret configured, a POST /api/parse request with a correct
\* body but a missing or incorrect X-API-Key is answered 401 and the upstream is
\* never called for it.
C2_BadKeyUnauthorized ==
  (InFlight /\ IsParseRoute /\ CorrectBody /\ Truthy(env.API_SECRET_KEY)
     /\ req.apiKey \in {Undefined, Str("wrong")})
    => /\ upstreamCalls = 0
       /\ pc \in {"cors", "json", "route", "done"}
       /\ Answered => /\ res.sent = 1
                      /\ res.statusCode = 401
                      /\ res.body.kind = "error"

C2_Witness ==
  /\ Answered /\ IsParseRoute /\ CorrectBody /\ Truthy(env.API_SECRET_KEY)
  /\ req.apiKey = Undefined
  /\ res.statusCode = 401

\* The upstream answered with a message whose content is valid JSON.
ValidJsonReply ==
  /\ reply.kind = "ok"
  /\ reply.content # Null
  /\ JSONparse(reply.content.chars).ok

\* C3 as stated: when the upstream content is valid JSON, the caller receives
\* 200 and a body equal to the parsed value, for every valid JSON content.
C3_AsStated ==
  (Answered /\ IsParseRoute /\ ValidJsonReply)
    => /\ res.statusCode = 200
       /\ res.body.kind = "json"
       /\ JSONparse(res.body.text) = JSONparse(reply.content.chars)

\* The upstream answered with a message whose content is not JSON.
InvalidJsonReply ==
  /\ reply.kind = "ok"
  /\ reply.content # Null
  /\ ~JSONparse(reply.content.chars).ok

\* Every text the response carries: the error message and the details.
ResponseTexts ==
  {res.body.error} \cup (IF res.body.details = Undefined THEN {}
                         ELSE {res.body.details.chars})

\* C4: when the upstream content is not parseable JSON, the caller receives a
\* 500 whose error is the fixed parse-failure message; neither the raw content
\* nor the parser's own error text is in the response.
C4_GenericParseFailure ==
  (Answered /\ IsParseRoute /\ InvalidJsonReply)
    => /\ res.sent = 1
       /\ res.statusCode = 500
       /\ res.body.kind = "error"
       /\ res.body.error = ParseFailureMessage
       /\ \A t \in ResponseTexts :
            /\ ~Appears(reply.content.chars, t)
            /\ ~Appears(trim(reply.content.chars), t)
            /\ ~Appears(SyntaxError(trim(reply.content.chars)).message, t)

C4_Witness ==
  /\ Answered /\ IsParseRoute /\ InvalidJsonReply
  /\ trim(reply.content.chars) = <<"x", "{", "}">>
  /\ res.statusCode = 500
  /\ res.body.details # Undefined

ConfigErrorBody ==
  ErrorBody(<<"Server configuration error: API key not configured">>, Undefined)

\* C5 as stated: with API_SECRET_KEY unset, every request to POST /api/parse or
\* GET /api/test-openai is answered 500 with the configuration-error message,
\* whatever the X-API-Key header, and the upstream is not called.
C5_AsStated ==
  (InFlight /\ ~Truthy(env.API_SECRET_KEY) /\ (IsParseRoute \/ IsTestRoute))
    => /\ upstreamCalls = 0
       /\ Answered => res.statusCode = 500 /\ res.body = ConfigErrorBody

\* C5 as amended: with API_SECRET_KEY unset, every request to POST /api/parse or
\* GET /api/test-openai whose body the JSON body parser does not reject is
\* answered 500 with the configuration-error message, whatever the X-API-Key
\* header, and the upstream is not called.
C5_SecretUnsetConfigError ==
  (InFlight /\ ~Truthy(env.API_SECRET_KEY) /\ (IsParseRoute \/ IsTestRoute)
     /\ req.rawBody.kind # "malformed")
    => /\ upstreamCalls = 0
       /\ pc \in {"cors", "json", "route", "done"}
       /\ Answered => /\ res.sent = 1
                      /\ res.statusCode = 500
                      /\ res.body = ConfigErrorBody

C5_Witness ==
  /\ Answered /\ ~Truthy(env.API_SECRET_KEY) /\ IsTestRoute
  /\ req.apiKey = Str("s3cret")
  /\ res.body = ConfigErrorBody

\* C6: when the upstream call fails, the failure leaves extractProjectInfo
\* unchanged and the caller receives a 500 whose error is the failure's message.
C6_UpstreamFailurePropagates ==
  (Answered /\ IsParseRoute /\ reply.kind = "error")
    => /\ extractProjectInfo(reply) = Threw(reply.error)
       /\ res.sent = 1
       /\ res.statusCode = 500
       /\ res.body.kind = "error"
       /\ res.body.error = reply.error.message

C6_Witness ==
  /\ Answered /\ IsParseRoute /\ reply.kind = "error"
  /\ reply.error.name = "RateLimitError"
  /\ res.body.error = <<"429 You exceeded your current quota">>

\* C7: a request causes at most one upstream call, whether the call succeeds,
\* fails or returns unparseable content; once the upstream has answered no
\* further call is made, and the outcome is reported on that same request.
C7_NoRetry ==
  /\ upstreamCalls <= 1
  /\ reply # NoReply =>
       /\ upstreamCalls = 1
       /\ pc \in {"awaitParse", "awaitTest", "done"}
       /\ Answered => /\ res.sent = 1
                      /\ (IsParseRoute /\ extractProjectInfo(reply).threw)
                           => res.statusCode = 500

C7_Witness ==
  /\ Answered /\ IsParseRoute /\ reply.kind = "error"
  /\ upstreamCalls = 1 /\ res.statusCode = 500

CredentialsErrorBody == ErrorBody(<<"OpenAI API key is not configured">>, Undefined)

\* C8 as stated: with OPENAI_API_KEY not configured, every call to POST
\* /api/parse and GET /api/test-openai fails with a configuration error and the
\* upstream is never called.
C8_AsStated ==
  (InFlight /\ ~Truthy(env.OPENAI_API_KEY) /\ (IsParseRoute \/ IsTestRoute))
    => /\ upstreamCalls = 0
       /\ Answered => /\ res.statusCode = 500
                      /\ res.body \in {CredentialsErrorBody, ConfigErrorBody}

\* The request got past the body parser, apiKeyAuth and, on /api/parse, the
\* check of the text field.
ReachesCredentialsCheck ==
  /\ KeyMatches
  /\ \/ IsTestRoute /\ req.rawBody.kind # "malformed"
     \/ IsParseRoute /\ body.t = "object" /\ Truthy(TextOf(body))

\* C8 as amended: with OPENAI_API_KEY not configured the upstream is never
\* called and every POST /api/parse and GET /api/test-openai request fails
\* (400, 401 or 500); those that pass the body parser, apiKeyAuth and, on
\* /api/parse, the text check are answered 500 "OpenAI API key is not
\* configured".
C8_CredentialsUnset ==
  (InFlight /\ ~Truthy(env.OPENAI_API_KEY))
    => /\ upstreamCalls = 0
       /\ reply = NoReply
       /\ (Answered /\ (IsParseRoute \/ IsTestRoute))
            => /\ res.sent = 1
               /\ res.statusCode \in {400, 401, 500}
               /\ ReachesCredentialsCheck
                    => res.statusCode = 500 /\ res.body = CredentialsErrorBody

C8_Witness ==
  /\ Answered /\ ~Truthy(env.OPENAI_API_KEY) /\ IsParseRoute
  /\ ReachesCredentialsCheck
  /\ res.body = CredentialsErrorBody

\* The three internal failures of /api/parse the specification lists.
MissingCredentialsFailure ==
  /\ ReachesCredentialsCheck /\ IsParseRoute /\ ~Truthy(env.OPENAI_API_KEY)
UpstreamFailure == reply.kind = "error"
InternalFailure == MissingCredentialsFailure \/ UpstreamFailure \/ InvalidJsonReply

HasStack == res.body.kind = "error" /\ res.body.details # Undefined

\* C9 as stated: an internal failure of POST /api/parse is answered with a
\* server error status and an error message, with a stack trace in every
\* deployment mode other than production and none in production.
C9_AsStated ==
  (Answered /\ IsParseRoute /\ InternalFailure)
    => /\ res.statusCode = 500
       /\ res.body.kind = "error"
       /\ res.body.error # <<>>
       /\ HasStack <=> env.NODE_ENV # Str("production")

\* C9 as amended: an internal failure of POST /api/parse is answered 500 with an
\* error message; the stack trace of the error is included exactly when NODE_ENV
\* is 'development' and the failure is an upstream call failure or a non-JSON
\* upstream response; the missing-credentials response never has one, and none
\* is included in production or when NODE_ENV is unset.
C9_StackOnlyInDevelopment ==
  (Answered /\ IsParseRoute /\ InternalFailure)
    => /\ res.sent = 1
       /\ res.statusCode = 500
       /\ res.body.kind = "error"
       /\ res.body.error # <<>>
       /\ HasStack <=> (env.NODE_ENV = Str("development") /\ ~MissingCredentialsFailure)
       /\ HasStack => res.body.details = Text(extractProjectInfo(reply).error.stack)

C9_Witness ==
  /\ Answered /\ IsParseRoute /\ UpstreamFailure
  /\ env.NODE_ENV = Str("development")
  /\ HasStack

\* Origins the CORS policy allows: none, an allow-listed one, a subdomain of the
\* hosting provider.
AllowedOriginsSent ==
  {Undefined, Text(<<"https://changeblock.com">>),
   Text(<<"https://preview-1", ".vercel.app">>)}

\* C10: an OPTIONS request from an allowed origin, to any path, is answered by
\* the CORS middleware: 200, the CORS headers set, an empty body, and neither
\* the body parser, apiKeyAuth, a route handler nor the upstream runs for it.
C10_PreflightShortCircuit ==
  (InFlight /\ req.method = "OPTIONS" /\ req.origin \in AllowedOriginsSent)
    => /\ pc \in {"cors", "done"}
       /\ upstreamCalls = 0
       /\ body = Undefined /\ err = NoError /\ parser = NoParser
       /\ Answered
            => /\ res.sent = 1
               /\ res.statusCode = 200
               /\ res.body = [kind |-> "empty"]
               /\ res.headers.allowOrigin =
                    (IF req.origin = Undefined THEN Str("*") ELSE req.origin)
               /\ res.headers.allowMethods # Undefined
               /\ res.headers.allowHeaders # Undefined

C10_Witness ==
  /\ Answered /\ req.method = "OPTIONS" /\ req.path = "/api/parse"
  /\ req.origin = Text(<<"https://preview-1", ".vercel.app">>)
  /\ res.statusCode = 200 /\ res.body = [kind |-> "empty"]

\* The origins of the model that the CORS policy names: no Origin header, an
\* origin of the allow-list, a subdomain of the hosting provider.
PolicyOrigins ==
  {Undefined, Text(<<"https://changeblock.com">>),
   Text(<<"https://preview-1", ".vercel.app">>),
   Text(<<"https://team", ".vercel.com">>)}

HeadersSet == res.headers # NoHeaders

\* The repeated request has been answered and the body parser left the same
\* req.body as for the first.
Repeated == first # NoFirst /\ Answered /\ body = first.body

\* C11 as stated: the CORS allow headers are set exactly for the origins of the
\* policy, and a request from any other origin gets the status code it gets
\* without an Origin header.
C11_AsStated ==
  /\ pc \notin {"idle", "cors"} => (HeadersSet <=> req.origin \in PolicyOrigins)
  /\ (Repeated /\ req.origin \notin PolicyOrigins)
       => res.statusCode = first.res.statusCode

\* C11 as amended: the CORS allow headers are set exactly for the origins of the
\* policy; a request from any other origin gets no CORS allow headers and, if
\* its method is not OPTIONS, the status code and body it gets without an
\* Origin header.
C11_CorsHeadersByOrigin ==
  /\ pc \notin {"idle", "cors"} => (HeadersSet <=> req.origin \in PolicyOrigins)
  /\ (Repeated /\ req.origin \notin PolicyOrigins /\ req.method # "OPTIONS")
       => /\ res.headers = NoHeaders
          /\ res.sent = 1
          /\ res.statusCode = first.res.statusCode
          /\ res.body = first.res.body
          /\ first.res.headers # NoHeaders

C11_Witness ==
  /\ Repeated /\ IsParseRoute
  /\ req.origin = Text(<<"https://evil.example">>)
  /\ res.headers = NoHeaders
  /\ res.statusCode = 200 /\ first.res.statusCode = 200

\* The method and path are those of none of the four routes.
MatchesNoRoute ==
  <<req.method, req.path>> \notin
    {<<"POST", "/api/parse">>, <<"GET", "/api/test-openai">>,
     <<"GET", "/api/health">>, <<"GET", "/">>}

NotFoundBody ==
  [kind |-> "notFound", error |-> <<"Not Found">>,
   message |-> <<"The requested endpoint does not exist">>]

\* No route handler has run and the upstream has not been called.
NoHandlerRan ==
  /\ upstreamCalls = 0
  /\ parser = NoParser
  /\ reply = NoReply
  /\ pc \in {"cors", "json", "route", "error", "done"}

SecondCall == first # NoFirst /\ first.requestId > 0 /\ requestId > 0

\* C13 as stated: the request counter is process-wide, so that the second
\* extractProjectInfo call of the process observes request id 2, greater than
\* and different from the id of the first call.
C13_AsStated ==
  SecondCall => /\ requestId = 2
                /\ requestId > first.requestId
                /\ requestId # first.requestId

----------------------------------------------------------------------------
\* Local startup: if (process.env.NODE_ENV !== 'production') { ... startServer(basePort) }

\* The number of listen attempts the model follows.
MaxBinds == 3

DefaultPort == 3000

\* process.env.PORT: unset, empty, or a string of digits (environment variables
\* are strings).
PortSettings ==
  {Undefined, Text(<<>>), Text(<<"8", "0">>), Text(<<"3", "0", "0", "0">>),
   Text(<<"8", "0", "8", "0">>)}

DigitValue(c) ==
  CASE c = "0" -> 0 [] c = "1" -> 1 [] c = "2" -> 2 [] c = "3" -> 3 [] c = "4" -> 4
    [] c = "5" -> 5 [] c = "6" -> 6 [] c = "7" -> 7 [] c = "8" -> 8 [] c = "9" -> 9

RECURSIVE DecimalValue(_)
DecimalValue(cs) ==
  IF cs = <<>> THEN 0
  ELSE 10 * DecimalValue(SubSeq(cs, 1, Len(cs) - 1)) + DigitValue(cs[Len(cs)])

\* The port number that listen(port) binds: a number as it is, a string of
\* digits by its decimal value.
ToNumber(p) == IF p.t = "number" THEN p.n ELSE DecimalValue(p.chars)

\* listen(port) accepts the ports 0..65535 and throws a RangeError otherwise.
ValidPort(p) == ToNumber(p) <= 65535

\* const basePort = process.env.PORT || 3000
basePort == IF Truthy(PORT) THEN PORT ELSE Num(DefaultPort)

\* port + 1: addition for a number, concatenation for a string.
PlusOne(p) == IF p.t = "number" THEN Num(p.n + 1) ELSE Text(Append(p.chars, "1"))

\* startServer(p): app.listen(p, ...) either throws at once or starts binding.
startServer(p) ==
  /\ port' = p
  /\ binds' = binds + 1
  /\ server' = IF ValidPort(p) THEN "binding" ELSE "crashed"

InitStartup ==
  /\ first = NoFirst
  /\ PORT \in PortSettings
  /\ server = "loaded"
  /\ port = Undefined
  /\ binds = 0
  /\ env \in Envs
  /\ pc = "idle"
  /\ req = NoRequest
  /\ body = Undefined
  /\ res = NewResponse
  /\ err = NoError
  /\ parser = NoParser
  /\ requestId = 0
  /\ upstreamCalls = 0
  /\ reply = NoReply

\* The end of the module's evaluation: in production the app is only exported,
\* otherwise startServer(basePort) is called.
Boot ==
  /\ server = "loaded"
  /\ IF env.NODE_ENV # Str("production")
     THEN startServer(basePort)
     ELSE server' = "exported" /\ UNCHANGED <<port, binds>>
  /\ UNCHANGED <<first, PORT, env, pc, req, body, res, err, parser, requestId, upstreamCalls, reply>>

\* The listen callback: logs, and tests the upstream connection when
\* OPENAI_API_KEY is set.
Listening ==
  /\ server = "binding"
  /\ server' = "listening"
  /\ upstreamCalls' = IF Truthy(env.OPENAI_API_KEY) THEN upstreamCalls + 1 ELSE upstreamCalls
  /\ UNCHANGED <<first, PORT, port, binds, env, pc, req, body, res, err, parser, requestId, reply>>

\* .on('error', ...) with err.code === 'EADDRINUSE': startServer(port + 1).
AddressInUse ==
  /\ server = "binding"
  /\ binds < MaxBinds
  /\ startServer(PlusOne(port))
  /\ UNCHANGED <<first, PORT, env, pc, req, body, res, err, parser, requestId, upstreamCalls, reply>>

\* .on('error', ...) with any other error: throw err.
OtherBindError ==
  /\ server = "binding"
  /\ server' = "crashed"
  /\ UNCHANGED <<first, PORT, port, binds, env, pc, req, body, res, err, parser, requestId, upstreamCalls, reply>>

NextStartup == Boot \/ Listening \/ AddressInUse \/ OtherBindError

SpecStartup == InitStartup /\ [][NextStartup]_vars

\* C14 as stated: the first bind is on the configured port, or on 3000 when none
\* is configured; after a bind of port p failed because the port is in use, the
\* next bind is on the port numbered p + 1, for a configured port as for the
\* default; any other bind error stops the server without another bind.
C14_AsStated ==
  [][/\ (server = "loaded" /\ server' # "exported")
          => /\ server' = "binding"
             /\ ToNumber(port') = (IF Truthy(PORT) THEN ToNumber(PORT) ELSE 3000)
     /\ (server = "binding" /\ binds' # binds)
          => /\ server' = "binding"
             /\ ToNumber(port') = ToNumber(port) + 1
     /\ (server = "binding" /\ server' = "crashed") => binds' = binds]_vars

----------------------------------------------------------------------------
\* The life of POST /api/parse requests alone.
ArriveParse ==
  /\ pc = "idle"
  /\ req' \in {r \in Requests : r.method = "POST" /\ r.path = "/api/parse"}
  /\ pc' = "cors"
  /\ res' = NewResponse
  /\ UNCHANGED <<first, PORT, server, port, binds, env, body, err, parser, requestId, upstreamCalls, reply>>

\* The server takes every step it can: a middleware or handler whose turn it
\* is runs, and the continuation of an await runs once the awaited call has
\* settled.  Nothing makes a request arrive or the upstream answer.
ServerStep ==
  \/ CorsMiddleware \/ JsonBodyParser \/ ApiKeyAuth \/ ParseHandler \/ ParseResume
  \/ ErrorHandler

\* The longest upstream content followed under fairness.
MaxFairLen == 2

\* The completion call comes back, as in UpstreamReply, with a short content.
UpstreamReplyShort ==
  /\ pc = "awaitParse"
  /\ reply = NoReply
  /\ reply' \in {r \in ParseReplies :
                   (r.kind = "ok" /\ r.content # Null) => Len(r.content.chars) <= MaxFairLen}
  /\ UNCHANGED <<first, PORT, server, port, binds, env, pc, req, body, res, err, parser, requestId, upstreamCalls>>

NextParse == ArriveParse \/ Finish \/ UpstreamReplyShort \/ ServerStep

SpecParseFair == Init /\ [][NextParse]_vars /\ WF_vars(ServerStep)

\* The upstream call of the request in hand has returned or failed.
UpstreamSettled == IsParseRoute /\ pc = "awaitParse" /\ reply # NoReply

\* The response of a POST /api/parse request has been sent once, with one of
\* the statuses of the middleware chain and the handler.
AnsweredOnce ==
  /\ Answered /\ IsParseRoute
  /\ res.sent = 1
  /\ res.statusCode \in {200, 400, 401, 500}

\* C15: a POST /api/parse request gets exactly one response: nothing is sent
\* before it is answered, an answered request has been sent one response and
\* never two, and whenever the upstream call has returned or failed the request
\* is eventually answered.
C15_ExactlyOneResponse ==
  /\ []((InFlight /\ IsParseRoute)
          => /\ res.sent <= 1
             /\ ~Answered => res.sent = 0
             /\ Answered => AnsweredOnce)
  /\ (UpstreamSettled ~> AnsweredOnce)
  /\ ((InFlight /\ IsParseRoute) ~> (AnsweredOnce \/ (pc = "awaitParse" /\ reply = NoReply)))

C15_Witness ==
  /\ AnsweredOnce
  /\ upstreamCalls = 1
  /\ reply # NoReply /\ reply.kind = "error"
  /\ res.statusCode = 500 /\ res.body.kind = "error"

====
